---- MODULE Spec2Model ----
(***************************************************************************)
(* Model of spherapy/util/epoch_u.py: TLE epoch <-> datetime conversions,  *)
(* nearest-datetime matching and the flat TLE file readers.                *)
(*                                                                         *)
(* Text is a sequence of one-character strings.  A float is an exact       *)
(* decimal [digits, scale] (the value is int(digits) / 10^scale); the      *)
(* quantisation of datetime/timedelta to whole microseconds is modelled    *)
(* exactly.  A call's outcome is [kind |-> "value", val |-> v] or          *)
(* [kind |-> "raise", exc |-> name].                                       *)
(***************************************************************************)
EXTENDS Integers, Sequences, FiniteSets, TLC

VARIABLES fs, call, ret, opened, enc_from

vars == <<fs, call, ret, opened, enc_from>>

(***************************************************************************)
(* Program constants                                                       *)
(***************************************************************************)
\* the century pivot of epoch2datetime
PivotYear == 50
\* seconds in a day
SecondsPerDay == 86400
\* microseconds in a second (the resolution of datetime and timedelta)
MicrosPerSecond == 1000000
\* significant digits str() prints of a float at most
ReprDigits == 17

(***************************************************************************)
(* Bounds of the model                                                     *)
(***************************************************************************)
\* longest fraction (digits after the point) of an input epoch string
MaxFracLen == 9

(***************************************************************************)
(* Outcomes                                                                *)
(***************************************************************************)
Value(v) == [kind |-> "value", val |-> v]
Raise(e) == [kind |-> "raise", exc |-> e]
NoRet == [kind |-> "none"]
\* the None a function returns
NoneValue == [kind |-> "None"]
IsValue(r) == r.kind = "value"
IsRaise(r) == r.kind = "raise"

(***************************************************************************)
(* Python sequence operations                                              *)
(***************************************************************************)
\* s[:n]
Take(s, n) == SubSeq(s, 1, IF n < Len(s) THEN n ELSE Len(s))
\* s[n:]
Drop(s, n) == SubSeq(s, n + 1, Len(s))
\* s[-n:]
TakeLast(s, n) == IF Len(s) <= n THEN s ELSE SubSeq(s, Len(s) - n + 1, Len(s))
\* n copies of x
Repeat(x, n) == [i \in 1..n |-> x]
\* s.zfill(n)
ZFill(s, n) == IF Len(s) >= n THEN s ELSE Repeat("0", n - Len(s)) \o s

(***************************************************************************)
(* Decimal digits and text                                                 *)
(***************************************************************************)
DigitChars == <<"0", "1", "2", "3", "4", "5", "6", "7", "8", "9">>
IsDigit(c) == \E i \in 1..10 : DigitChars[i] = c
DigitVal(c) == (CHOOSE i \in 1..10 : DigitChars[i] = c) - 1
AllDigits(s) == \A i \in 1..Len(s) : IsDigit(s[i])
DigitVals(s) == [i \in 1..Len(s) |-> DigitVal(s[i])]
DigitText(ds) == [i \in 1..Len(ds) |-> DigitChars[ds[i] + 1]]

RECURSIVE ToInt(_)
\* the number a sequence of digits 0..9 writes
ToInt(ds) ==
    IF ds = <<>> THEN 0
    ELSE 10 * ToInt(SubSeq(ds, 1, Len(ds) - 1)) + ds[Len(ds)]

RECURSIVE NatDigits(_)
\* the digits of n >= 0, without leading zeros (0 is <<0>>)
NatDigits(n) ==
    IF n < 10 THEN <<n>> ELSE NatDigits(n \div 10) \o <<n % 10>>

\* str(n) of an int n >= 0
IntStr(n) == DigitText(NatDigits(n))

\* the digits of n, zero-padded on the left to exactly w digits
PadDigits(n, w) ==
    LET d == NatDigits(n)
    IN  IF Len(d) >= w THEN d ELSE Repeat(0, w - Len(d)) \o d

AllZero(ds) == \A i \in 1..Len(ds) : ds[i] = 0

RECURSIVE MulAcc(_, _, _)
\* digits * m + carry, for 0 <= carry < m < 10^5, written with Len(ds) + 5 digits
MulAcc(ds, m, carry) ==
    IF ds = <<>> THEN PadDigits(carry, 5)
    ELSE LET t == ds[Len(ds)] * m + carry
         IN  MulAcc(SubSeq(ds, 1, Len(ds) - 1), m, t \div 10) \o <<t % 10>>

(***************************************************************************)
(* int() and float() of text                                               *)
(***************************************************************************)
\* int(s): the text must be decimal digits
PyInt(s) ==
    IF s # <<>> /\ AllDigits(s) THEN Value(ToInt(DigitVals(s)))
    ELSE Raise("ValueError")

\* position of the first c in s, 0 when absent
Find(s, c) ==
    IF \E i \in 1..Len(s) : s[i] = c
    THEN CHOOSE i \in 1..Len(s) : s[i] = c /\ \A j \in 1..(i - 1) : s[j] # c
    ELSE 0

\* float(s) of the forms  digits[.digits][e[-]digits]  as an exact decimal
PyFloat(s) ==
    LET e    == Find(s, "e")
        mant == IF e = 0 THEN s ELSE SubSeq(s, 1, e - 1)
        expt == IF e = 0 THEN <<>> ELSE Drop(s, e)
        neg  == expt # <<>> /\ expt[1] = "-"
        expd == IF neg THEN Drop(expt, 1) ELSE expt
        p    == Find(mant, ".")
        intd == IF p = 0 THEN mant ELSE SubSeq(mant, 1, p - 1)
        frcd == IF p = 0 THEN <<>> ELSE Drop(mant, p)
        ok   == /\ AllDigits(intd) /\ AllDigits(frcd)
                /\ Len(intd) + Len(frcd) > 0
                /\ e # 0 => (expd # <<>> /\ AllDigits(expd))
    IN  IF ~ok THEN Raise("ValueError")
        ELSE LET ex == IF e = 0 THEN 0 ELSE ToInt(DigitVals(expd))
                 sc == IF neg THEN Len(frcd) + ex ELSE Len(frcd) - ex
                 ds == DigitVals(intd \o frcd)
             IN  Value(IF sc >= 0 THEN [digits |-> ds, scale |-> sc]
                       ELSE [digits |-> ds \o Repeat(0, -sc), scale |-> 0])

(***************************************************************************)
(* The calendar of datetime                                                *)
(***************************************************************************)
IsLeap(y) == y % 4 = 0 /\ (y % 100 # 0 \/ y % 400 = 0)

DaysBeforeYear(y) ==
    LET p == y - 1 IN p * 365 + p \div 4 - p \div 100 + p \div 400

DaysInMonth(y, m) ==
    IF m = 2 THEN (IF IsLeap(y) THEN 29 ELSE 28)
    ELSE IF m \in {4, 6, 9, 11} THEN 30 ELSE 31

RECURSIVE DaysBeforeMonth(_, _)
DaysBeforeMonth(y, m) ==
    IF m = 1 THEN 0 ELSE DaysBeforeMonth(y, m - 1) + DaysInMonth(y, m - 1)

\* date.toordinal(): 0001-01-01 is day 1
Ymd2Ord(y, m, d) == DaysBeforeYear(y) + DaysBeforeMonth(y, m) + d

\* date.fromordinal(): the [year, month, day] of an ordinal
Ord2Ymd(n) ==
    LET y == CHOOSE yy \in (n \div 366)..(n \div 365 + 1) :
                 DaysBeforeYear(yy) < n /\ n <= DaysBeforeYear(yy + 1)
        r == n - DaysBeforeYear(y)
        m == CHOOSE mm \in 1..12 :
                 DaysBeforeMonth(y, mm) < r /\ r <= DaysBeforeMonth(y, mm) + DaysInMonth(y, mm)
    IN  [year |-> y, month |-> m, day |-> r - DaysBeforeMonth(y, m)]

\* dt.datetime(year, month, day, hour, minute, second, microsecond, tzinfo)
Datetime(y, mo, d, h, mi, s, us, tz) ==
    [year |-> y, month |-> mo, day |-> d, hour |-> h, minute |-> mi,
     second |-> s, microsecond |-> us, tzinfo |-> tz]

ToOrdinal(date) == Ymd2Ord(date.year, date.month, date.day)
SecondOfDay(date) == date.hour * 3600 + date.minute * 60 + date.second

\* date.timetuple().tm_yday
YDay(date) == DaysBeforeMonth(date.year, date.month) + date.day

\* dt.timedelta(days, seconds, microseconds) of ints, normalised as timedelta
\* does: 0 <= seconds < 86400 and 0 <= microseconds < 10^6, days takes the sign
Timedelta(d, s, us) ==
    LET s1 == s + us \div MicrosPerSecond
    IN  [days |-> d + s1 \div SecondsPerDay,
         seconds |-> s1 % SecondsPerDay,
         microseconds |-> us % MicrosPerSecond]

\* dt.timedelta(days=x) of a float x >= 0: whole days, and the fraction of a
\* day in microseconds rounded half to even
TimedeltaOfDays(x) ==
    LET n    == Len(x.digits)
        ds   == IF n > x.scale THEN x.digits
                ELSE Repeat(0, x.scale - n + 1) \o x.digits
        k    == Len(ds) - x.scale
        days == ToInt(SubSeq(ds, 1, k))
        frac == Drop(ds, k)
        prod == MulAcc(frac, SecondsPerDay, 0)
        secs == ToInt(SubSeq(prod, 1, 5))
        sub  == Drop(prod, 5) \o Repeat(0, 6)
        us   == ToInt(SubSeq(sub, 1, 6))
        rest == Drop(sub, 6)
        tail == Drop(rest, 1)
        up   == /\ rest # <<>>
                /\ \/ rest[1] > 5
                   \/ rest[1] = 5 /\ ~AllZero(tail)
                   \/ rest[1] = 5 /\ AllZero(tail) /\ us % 2 = 1
    IN  Timedelta(days, secs, us + (IF up THEN 1 ELSE 0))

\* datetime + timedelta
DtAdd(date, td) ==
    LET t   == Timedelta(ToOrdinal(date) + td.days,
                         SecondOfDay(date) + td.seconds,
                         date.microsecond + td.microseconds)
        ymd == Ord2Ymd(t.days)
    IN  Datetime(ymd.year, ymd.month, ymd.day,
                 t.seconds \div 3600, (t.seconds % 3600) \div 60, t.seconds % 60,
                 t.microseconds, date.tzinfo)

\* -timedelta
TdNeg(td) == Timedelta(-td.days, -td.seconds, -td.microseconds)

\* datetime - timedelta
DtSubTd(date, td) == DtAdd(date, TdNeg(td))

\* datetime - datetime of the same timezone awareness
DtSub(a, b) ==
    Timedelta(ToOrdinal(a) - ToOrdinal(b),
              SecondOfDay(a) - SecondOfDay(b),
              a.microsecond - b.microsecond)

(***************************************************************************)
(* str() of a float                                                        *)
(***************************************************************************)
RECURSIVE QuotDigits(_, _, _, _)
\* the decimal digits after the point of (a seconds + b microseconds) / one day,
\* for a value below 1: the leading zeros, then n significant digits
QuotDigits(a, b, started, n) ==
    IF n = 0 THEN <<>>
    ELSE LET a1 == 10 * a + b \div 100000
             dg == a1 \div SecondsPerDay
             a2 == a1 % SecondsPerDay
             b2 == 10 * (b % 100000)
         IN  IF ~started /\ dg = 0
             THEN <<0>> \o QuotDigits(a2, b2, FALSE, n)
             ELSE <<dg>> \o QuotDigits(a2, b2, TRUE, n - 1)

RECURSIVE StripZeros(_)
\* the digits without their trailing zeros
StripZeros(ds) ==
    IF ds # <<>> /\ ds[Len(ds)] = 0 THEN StripZeros(SubSeq(ds, 1, Len(ds) - 1))
    ELSE ds

\* the number of leading zeros of a digit sequence that is not all zeros
LeadingZeros(ds) == (CHOOSE i \in 1..Len(ds) : ds[i] # 0 /\ AllZero(SubSeq(ds, 1, i - 1))) - 1

\* str(td.total_seconds() / 86400.0) for a timedelta within one day: "0.0",
\* positional notation from 0.0001 up, and exponent notation d.ddde-XX below
DayFractionStr(td) ==
    IF td.seconds = 0 /\ td.microseconds = 0 THEN <<"0", ".", "0">>
    ELSE LET all == QuotDigits(td.seconds, td.microseconds, FALSE, ReprDigits)
             z   == LeadingZeros(all)
             sig == StripZeros(Drop(all, z))
         IN  IF z >= 4
             THEN DigitText(Take(sig, 1))
                  \o (IF Len(sig) > 1 THEN <<".">> \o DigitText(Drop(sig, 1)) ELSE <<>>)
                  \o <<"e", "-">> \o ZFill(IntStr(z + 1), 2)
             ELSE <<"0", ".">> \o DigitText(Repeat(0, z) \o sig)

(***************************************************************************)
(* EpochCodec                                                              *)
(***************************************************************************)
\* the mutant of epoch2datetime that forgets the one-day offset of the
\* 1-based day of year
epoch2datetime_NoDayOffset(epoch_str) ==
    LET yr == PyInt(Take(epoch_str, 2))
        fl == PyFloat(Drop(epoch_str, 2))
    IN  IF IsRaise(yr) THEN yr
        ELSE IF IsRaise(fl) THEN fl
        ELSE LET year == IF yr.val < PivotYear THEN yr.val + 2000 ELSE yr.val + 1900
                 base == Datetime(year, 1, 1, 0, 0, 0, 0, "UTC")
             IN  Value(DtAdd(base, TimedeltaOfDays(fl.val)))

\* epoch2datetime(epoch_str), for epoch_str given as text (a value of another
\* type is first replaced by its str())
epoch2datetime(epoch_str) ==
    LET yr == PyInt(Take(epoch_str, 2))
        fl == PyFloat(Drop(epoch_str, 2))
    IN  IF IsRaise(yr) THEN yr
        ELSE IF IsRaise(fl) THEN fl
        ELSE LET year == IF yr.val < PivotYear THEN yr.val + 2000 ELSE yr.val + 1900
                 base == Datetime(year, 1, 1, 0, 0, 0, 0, "UTC")
             IN  Value(DtSubTd(DtAdd(base, TimedeltaOfDays(fl.val)), Timedelta(1, 0, 0)))

\* datetime2TLEepoch(date)
datetime2TLEepoch(date) ==
    LET tzinfo       == date.tzinfo
        year_str     == TakeLast(IntStr(date.year), 2)
        day_str      == ZFill(IntStr(YDay(date)), 3)
        day_start    == Datetime(date.year, date.month, date.day, 0, 0, 0, 0, tzinfo)
        fraction_str == Drop(DayFractionStr(DtSub(date, day_start)), 1)
    IN  Value(year_str \o day_str \o fraction_str)

\* the mutant of sgp4start that takes 1950-01-01 for the reference instant
sgp4start_Jan1(tzinfo) == Datetime(1950, 1, 1, 0, 0, 0, 0, tzinfo)

\* sgp4start of datetime2sgp4epoch
sgp4start(tzinfo) == Datetime(1949, 12, 31, 0, 0, 0, 0, tzinfo)

\* datetime2sgp4epoch(date): the float delta.days + delta.seconds / 86400, kept
\* as its two terms [whole, num] with value whole + num / 86400
datetime2sgp4epoch(date) ==
    LET delta == DtSub(date, sgp4start(date.tzinfo))
    IN  Value([whole |-> delta.days, num |-> delta.seconds])

(***************************************************************************)
(* Inputs of the codec                                                     *)
(***************************************************************************)
NoFile == [exists |-> FALSE, lines |-> <<>>]
NoCall == [op |-> "none"]

YearTexts == {<<"0", "0">>, <<"2", "1">>, <<"4", "9">>, <<"5", "0">>, <<"9", "9">>}
DayTexts == {<<"0", "0", "0">>, <<"0", "0", "1">>, <<"0", "6", "0">>, <<"3", "6", "6">>}
\* fractions of every length: zeros then one digit, and one digit repeated
FracTexts ==
    {DigitText([i \in 1..k |-> IF i = k THEN d ELSE 0]) : k \in 1..MaxFracLen, d \in {0, 1, 5, 9}}
    \cup {DigitText(Repeat(d, k)) : k \in 1..MaxFracLen, d \in {2, 5, 9}}
WellFormedEpochs == {y \o d \o <<".">> \o f : y \in YearTexts, d \in DayTexts, f \in FracTexts}
MalformedEpochs ==
    {<<>>, <<"2">>, <<"2", "1">>, <<"2", "x", "0", "0", "1", ".", "5">>,
     <<"2", "1", "0", "0", "1", ".", "5", "x">>, <<"2", "1", ".">>}
EpochInputs == WellFormedEpochs \cup MalformedEpochs

InputYears == {1949, 1950, 1999, 2000, 2021, 2049, 2050}
InputDays == {<<1, 1>>, <<2, 28>>, <<3, 1>>, <<12, 31>>}
InputTimes == {<<0, 0, 0>>, <<0, 0, 1>>, <<0, 0, 8>>, <<0, 0, 9>>, <<6, 0, 0>>,
               <<12, 0, 0>>, <<23, 59, 59>>}
InputMicros == {0, 1, 500000}
DateInputs ==
    {Datetime(y, md[1], md[2], t[1], t[2], t[3], us, tz) :
        y \in InputYears, md \in InputDays, t \in InputTimes, us \in InputMicros,
        tz \in {"None", "UTC"}}

(***************************************************************************)
(* The codec as a state machine: one action per function called, from the  *)
(* idle state                                                              *)
(***************************************************************************)
InitCodec ==
    /\ fs = NoFile
    /\ call = NoCall
    /\ ret = NoRet
    /\ opened = FALSE
    /\ enc_from = <<>>

CallEpoch2datetime ==
    /\ call.op = "none"
    /\ \E s \in EpochInputs :
        /\ call' = [op |-> "epoch2datetime", arg |-> s]
        /\ ret' = epoch2datetime(s)
        /\ enc_from' = <<>>
        /\ UNCHANGED <<fs, opened>>

\* epoch2datetime of the string datetime2TLEepoch has just returned
CallEpoch2datetimeOfEncoded ==
    /\ call.op = "datetime2TLEepoch"
    /\ IsValue(ret)
    /\ call' = [op |-> "epoch2datetime", arg |-> ret.val]
    /\ ret' = epoch2datetime(ret.val)
    /\ enc_from' = <<call.arg>>
    /\ UNCHANGED <<fs, opened>>

CallDatetime2TLEepoch ==
    /\ call.op = "none"
    /\ \E d \in DateInputs :
        /\ call' = [op |-> "datetime2TLEepoch", arg |-> d]
        /\ ret' = datetime2TLEepoch(d)
        /\ enc_from' = <<>>
        /\ UNCHANGED <<fs, opened>>

CallDatetime2sgp4epoch ==
    /\ call.op = "none"
    /\ \E d \in DateInputs :
        /\ call' = [op |-> "datetime2sgp4epoch", arg |-> d]
        /\ ret' = datetime2sgp4epoch(d)
        /\ enc_from' = <<>>
        /\ UNCHANGED <<fs, opened>>

\* the call returns to its caller; the functions keep no state
ReturnCodec ==
    /\ call.op # "none"
    /\ call' = NoCall
    /\ ret' = NoRet
    /\ enc_from' = <<>>
    /\ UNCHANGED <<fs, opened>>

NextCodec ==
    \/ CallEpoch2datetime
    \/ CallEpoch2datetimeOfEncoded
    \/ CallDatetime2TLEepoch
    \/ CallDatetime2sgp4epoch
    \/ ReturnCodec

SpecCodec == InitCodec /\ [][NextCodec]_vars

(***************************************************************************)
(* Claims about the codec (checked under SpecCodec)                        *)
(***************************************************************************)
\* an epoch string of the form YYDDD.F
WellFormedEpoch(s) ==
    /\ Len(s) >= 7
    /\ AllDigits(Take(s, 5))
    /\ s[6] = "."
    /\ AllDigits(Drop(s, 6))

\* the year Y, the day of year DDD and the fraction digits F an epoch string states
EpochYear(s) ==
    LET yy == ToInt(DigitVals(Take(s, 2)))
    IN  IF yy < 50 THEN 2000 + yy ELSE 1900 + yy
EpochDay(s) == ToInt(DigitVals(SubSeq(s, 3, 5)))
EpochFrac(s) == DigitVals(Drop(s, 6))

\* r is exactly the UTC instant Jan 1 00:00:00 of Y plus (DDD.F - 1) days: the
\* day is right, and the seconds and microseconds of the day written as
\* sssssuuuuuu are the digits of 0.F * 86400 s, with no digit of it left out
ExactInstant(r, s) ==
    /\ r.tzinfo = "UTC"
    /\ ToOrdinal(r) = Ymd2Ord(EpochYear(s), 1, 1) + EpochDay(s) - 1
    /\ LET F == EpochFrac(s)
           P == MulAcc(F, 86400, 0)
           T == PadDigits(SecondOfDay(r), 5) \o PadDigits(r.microsecond, 6)
       IN  IF Len(F) <= 6 THEN T = P \o Repeat(0, 6 - Len(F))
           ELSE P = T \o Repeat(0, Len(F) - 6)

\* r is a whole microsecond less than one microsecond away from that instant
NearInstant(r, s) ==
    /\ r.tzinfo = "UTC"
    /\ LET F    == EpochFrac(s)
           P    == MulAcc(F, 86400, 0) \o Repeat(0, 6)
           day  == Ymd2Ord(EpochYear(s), 1, 1) + EpochDay(s) - 1
           secs == ToInt(SubSeq(P, 1, 5))
           us   == ToInt(SubSeq(P, 6, 11))
           got  == [days |-> ToOrdinal(r), seconds |-> SecondOfDay(r),
                    microseconds |-> r.microsecond]
       IN  got \in {Timedelta(day, secs, us), Timedelta(day, secs, us + 1)}

\* C1 as stated: for every epoch string YYDDD.F, epoch2datetime returns exactly
\* the UTC instant Jan 1 00:00:00 of year Y plus (DDD.F - 1) days, Y = 2000 + YY
\* when YY < 50 and 1900 + YY otherwise.
C1_Original ==
    (call.op = "epoch2datetime" /\ WellFormedEpoch(call.arg))
        => (IsValue(ret) /\ ExactInstant(ret.val, call.arg))

\* C1 as amended: epoch2datetime returns that instant to the microsecond
\* resolution of datetime (a whole microsecond less than one microsecond from
\* it), and exactly that instant when F has at most 8 digits.
C1_Amended ==
    (call.op = "epoch2datetime" /\ WellFormedEpoch(call.arg))
        => /\ IsValue(ret)
           /\ NearInstant(ret.val, call.arg)
           /\ Len(EpochFrac(call.arg)) <= 8 => ExactInstant(ret.val, call.arg)

\* C1's case: an 8-digit non-zero fraction of a year-50 epoch was converted
C1_Witness ==
    /\ call.op = "epoch2datetime"
    /\ WellFormedEpoch(call.arg)
    /\ Take(call.arg, 2) = <<"5", "0">>
    /\ Len(EpochFrac(call.arg)) = 8
    /\ ~AllZero(EpochFrac(call.arg))
    /\ IsValue(ret)
    /\ ret.val.year = 1950
    /\ ret.val.microsecond # 0

\* C2 as stated: for every datetime, datetime2TLEepoch returns the last two
\* digits of the year, the day of year zero-padded to three digits, then a
\* decimal point followed only by decimal digits.
C2_Claim ==
    call.op = "datetime2TLEepoch"
        => /\ IsValue(ret)
           /\ Len(ret.val) >= 7
           /\ Take(ret.val, 2) = ZFill(IntStr(call.arg.year % 100), 2)
           /\ SubSeq(ret.val, 3, 5) = ZFill(IntStr(YDay(call.arg)), 3)
           /\ ret.val[6] = "."
           /\ AllDigits(Drop(ret.val, 6))

\* C9: for every datetime d with a whole-second time of day, datetime2sgp4epoch
\* returns whole_days + partial_seconds / 86400 with result * 86400 equal to the
\* seconds elapsed from 1949-12-31T00:00:00 to d, also for d before that
\* instant; the reference instant gives 0 and one day later gives 1.
C9_Sgp4Epoch ==
    (call.op = "datetime2sgp4epoch" /\ call.arg.microsecond = 0)
        => /\ IsValue(ret)
           /\ LET d == call.arg
                  D == ToOrdinal(d) - Ymd2Ord(1949, 12, 31)
                  S == SecondOfDay(d)
                  v == ret.val
              IN  /\ v.num \in 0..86399
                  /\ (v.whole - D) * 86400 = S - v.num
                  /\ (D = 0 /\ S = 0) => v = [whole |-> 0, num |-> 0]
                  /\ (D = 1 /\ S = 0) => v = [whole |-> 1, num |-> 0]

\* C9's case: a datetime before the reference instant, not at midnight
C9_Witness ==
    /\ call.op = "datetime2sgp4epoch"
    /\ call.arg.microsecond = 0
    /\ call.arg.year = 1949
    /\ call.arg.month = 3
    /\ IsValue(ret)
    /\ ret.val.whole < 0
    /\ ret.val.num = 86399

\* C10 as stated: for every UTC datetime d with year in 1950..2049 and a
\* whole-second time of day, epoch2datetime(datetime2TLEepoch(d)) is d.
C10_Claim ==
    (/\ call.op = "epoch2datetime"
     /\ enc_from # <<>>
     /\ enc_from[1].tzinfo = "UTC"
     /\ enc_from[1].year \in 1950..2049
     /\ enc_from[1].microsecond = 0)
        => ret = Value(enc_from[1])

(***************************************************************************)
(* NearestTimeMatcher                                                      *)
(***************************************************************************)
\* longest query array and longest source array
MaxTestLen == 2
MaxSourceLen == 3
\* the datetimes of the arrays are MaxTime + 1 consecutive seconds
MaxTime == 2

\* x.timestamp() of a UTC datetime of whole seconds: seconds since 1970-01-01
Timestamp(x) == (ToOrdinal(x) - Ymd2Ord(1970, 1, 1)) * SecondsPerDay + SecondOfDay(x)

\* np.abs
Abs(x) == IF x < 0 THEN -x ELSE x

\* the mutant of ArgMin that returns the last occurrence of the minimum
ArgMin_Last(a) ==
    (CHOOSE j \in 1..Len(a) :
        /\ \A k \in 1..Len(a) : a[j] <= a[k]
        /\ \A k \in (j + 1)..Len(a) : a[k] # a[j]) - 1

\* np.argmin: the 0-based index of the first occurrence of the minimum
ArgMin(a) ==
    (CHOOSE j \in 1..Len(a) :
        /\ \A k \in 1..Len(a) : a[j] <= a[k]
        /\ \A k \in 1..(j - 1) : a[k] # a[j]) - 1

\* findClosestDatetimeIndices(test_arr, source_arr); np.vectorize refuses an
\* empty array
findClosestDatetimeIndices(test_arr, source_arr) ==
    IF test_arr = <<>> \/ source_arr = <<>> THEN Raise("ValueError")
    ELSE LET test_arr_fl   == [i \in 1..Len(test_arr) |-> Timestamp(test_arr[i])]
             source_arr_fl == [i \in 1..Len(source_arr) |-> Timestamp(source_arr[i])]
             diff(ii)      == [j \in 1..Len(source_arr_fl) |->
                                  Abs(source_arr_fl[j] - test_arr_fl[ii])]
         IN  Value([ii \in 1..Len(test_arr_fl) |-> ArgMin(diff(ii))])

SeqsUpTo(S, n) == UNION {[1..k -> S] : k \in 0..n}
MatchTimes == {Datetime(2021, 1, 1, 0, 0, s, 0, "UTC") : s \in 0..MaxTime}

InitMatcher == InitCodec

CallFindClosestDatetimeIndices ==
    /\ call.op = "none"
    /\ \E q \in SeqsUpTo(MatchTimes, MaxTestLen), r \in SeqsUpTo(MatchTimes, MaxSourceLen) :
        /\ call' = [op |-> "findClosestDatetimeIndices", test_arr |-> q, source_arr |-> r]
        /\ ret' = findClosestDatetimeIndices(q, r)
        /\ UNCHANGED <<fs, opened, enc_from>>

ReturnMatcher ==
    /\ call.op # "none"
    /\ call' = NoCall
    /\ ret' = NoRet
    /\ UNCHANGED <<fs, opened, enc_from>>

NextMatcher ==
    \/ CallFindClosestDatetimeIndices
    \/ ReturnMatcher

SpecMatcher == InitMatcher /\ [][NextMatcher]_vars

MaxLines == 7
\* requested record indices range over -(MaxIdx + 1)..MaxIdx
MaxIdx == 2
\* longest list of requested record indices
MaxIdxLen == 2

\* seq[i] of Python: 0-based, a negative index counts from the end
PyIndex(seq, i) ==
    IF -Len(seq) <= i /\ i < Len(seq)
    THEN Value(seq[(IF i < 0 THEN i + Len(seq) ELSE i) + 1])
    ELSE Raise("IndexError")

\* elements_u.split3LELineIntoFields(line)
split3LELineIntoFields(line) == [fields |-> line.fields, line_str |-> <<line.text>>]

\* tle_path.open('r') and fp.readlines()
ReadLines(f) == IF f.exists THEN Value(f.lines) ELSE Raise("FileNotFoundError")

\* epoch2datetime(tle_line['fields'][3])
FieldEpoch(tle_line) ==
    LET e == PyIndex(tle_line.fields, 3)
    IN  IF IsRaise(e) THEN e ELSE epoch2datetime(e.val)

\* a is an earlier instant than b (both UTC)
DtBefore(a, b) ==
    \/ ToOrdinal(a) < ToOrdinal(b)
    \/ ToOrdinal(a) = ToOrdinal(b) /\ SecondOfDay(a) < SecondOfDay(b)
    \/ ToOrdinal(a) = ToOrdinal(b) /\ SecondOfDay(a) = SecondOfDay(b)
          /\ a.microsecond < b.microsecond

\* the mutant of EpochPair that returns the two epochs in chronological order
EpochPair_Sorted(first_epoch_dt, last_epoch_dt) ==
    IF DtBefore(last_epoch_dt, first_epoch_dt) THEN <<last_epoch_dt, first_epoch_dt>>
    ELSE <<first_epoch_dt, last_epoch_dt>>

\* the tuple getStoredEpochs returns
EpochPair(first_epoch_dt, last_epoch_dt) == <<first_epoch_dt, last_epoch_dt>>

\* the body of getStoredEpochs after the existence check
StoredEpochsOf(f) ==
    LET rl == ReadLines(f)
    IN  IF IsRaise(rl) THEN rl
        ELSE
        LET lines == rl.val
            l1    == PyIndex(lines, 1)
            l2    == PyIndex(lines, -2)
        IN  IF IsRaise(l1) THEN l1
            ELSE IF IsRaise(l2) THEN l2
            ELSE LET first_epoch_dt == FieldEpoch(split3LELineIntoFields(l1.val))
                     last_epoch_dt  == FieldEpoch(split3LELineIntoFields(l2.val))
                 IN  IF IsRaise(first_epoch_dt) THEN first_epoch_dt
                     ELSE IF IsRaise(last_epoch_dt) THEN last_epoch_dt
                     ELSE Value(EpochPair(first_epoch_dt.val, last_epoch_dt.val))

\* the mutant of getStoredEpochs without the existence check
getStoredEpochs_NoExistsCheck(f) == [out |-> StoredEpochsOf(f), opened |-> TRUE]

\* getStoredEpochs(tle_path)
getStoredEpochs(f) ==
    IF ~f.exists THEN [out |-> NoneValue, opened |-> FALSE]
    ELSE [out |-> StoredEpochsOf(f), opened |-> TRUE]

RECURSIVE EpochsFrom(_, _, _)
\* the loop of getAllStoredEpochs: for ii in range(ii, stop, 3), onto acc
EpochsFrom(lines, ii, acc) ==
    IF ii >= Len(lines) THEN Value(acc)
    ELSE LET l == PyIndex(lines, ii)
         IN  IF IsRaise(l) THEN l
             ELSE LET e == FieldEpoch(split3LELineIntoFields(l.val))
                  IN  IF IsRaise(e) THEN e
                      ELSE EpochsFrom(lines, ii + 3, Append(acc, e.val))

\* the mutant of getAllStoredEpochs whose range stops one line early
getAllStoredEpochs_StopEarly(f) ==
    IF ~f.exists THEN [out |-> NoneValue, opened |-> FALSE]
    ELSE [out |-> EpochsFrom(SubSeq(f.lines, 1, Len(f.lines) - 1), 1, <<>>), opened |-> TRUE]

\* getAllStoredEpochs(tle_path)
getAllStoredEpochs(f) ==
    IF ~f.exists THEN [out |-> NoneValue, opened |-> FALSE]
    ELSE [out |-> EpochsFrom(ReadLines(f).val, 1, <<>>), opened |-> TRUE]

\* the mutant of TleData that reads the record one line late
TleData_OffByOne(lines, idx, string_only) ==
    LET l0 == PyIndex(lines, idx * 3 + 1)
        l1 == PyIndex(lines, idx * 3 + 2)
        l2 == PyIndex(lines, idx * 3 + 3)
    IN  IF IsRaise(l0) THEN l0
        ELSE IF IsRaise(l1) THEN l1
        ELSE IF IsRaise(l2) THEN l2
        ELSE LET tle_line_0 == split3LELineIntoFields(l0.val)
                 tle_line_1 == split3LELineIntoFields(l1.val)
                 tle_line_2 == split3LELineIntoFields(l2.val)
             IN  IF string_only
                 THEN Value(tle_line_0.line_str \o tle_line_1.line_str \o tle_line_2.line_str)
                 ELSE Value([i \in 0..2 |-> IF i = 0 THEN tle_line_0
                                            ELSE IF i = 1 THEN tle_line_1 ELSE tle_line_2])

\* one pass of the loop of getStoredTLEByIdx: the tle_data of record idx
TleData(lines, idx, string_only) ==
    LET l0 == PyIndex(lines, idx * 3 + 0)
        l1 == PyIndex(lines, idx * 3 + 1)
        l2 == PyIndex(lines, idx * 3 + 2)
    IN  IF IsRaise(l0) THEN l0
        ELSE IF IsRaise(l1) THEN l1
        ELSE IF IsRaise(l2) THEN l2
        ELSE LET tle_line_0 == split3LELineIntoFields(l0.val)
                 tle_line_1 == split3LELineIntoFields(l1.val)
                 tle_line_2 == split3LELineIntoFields(l2.val)
             IN  IF string_only
                 THEN Value(tle_line_0.line_str \o tle_line_1.line_str \o tle_line_2.line_str)
                 ELSE Value([i \in 0..2 |-> IF i = 0 THEN tle_line_0
                                            ELSE IF i = 1 THEN tle_line_1 ELSE tle_line_2])

RECURSIVE TlesFrom(_, _, _, _)
\* the loop of getStoredTLEByIdx over the rest of idx_list, onto tles
TlesFrom(lines, idx_list, string_only, tles) ==
    IF idx_list = <<>> THEN Value(tles)
    ELSE LET tle_data == TleData(lines, idx_list[1], string_only)
         IN  IF IsRaise(tle_data) THEN tle_data
             ELSE TlesFrom(lines, Drop(idx_list, 1), string_only, Append(tles, tle_data.val))

\* the idx_list arguments: an int k is [is_int |-> TRUE, v |-> k], a list is
\* [is_int |-> FALSE, v |-> the list]
IntArg(k) == [is_int |-> TRUE, v |-> k]
ListArg(l) == [is_int |-> FALSE, v |-> l]

\* the mutant of getStoredTLEByIdx that returns the records read before a bad
\* index instead of failing
getStoredTLEByIdx_Partial(f, idx_list, string_only) ==
    IF ~f.exists THEN [out |-> NoneValue, opened |-> FALSE]
    ELSE LET idxs == IF idx_list.is_int THEN <<idx_list.v>> ELSE idx_list.v
             ok   == {n \in 0..Len(idxs) :
                         IsValue(TlesFrom(f.lines, SubSeq(idxs, 1, n), string_only, <<>>))}
             most == CHOOSE n \in ok : \A m \in ok : m <= n
         IN  [out |-> TlesFrom(f.lines, SubSeq(idxs, 1, most), string_only, <<>>),
              opened |-> TRUE]

\* getStoredTLEByIdx(tle_path, idx_list, string_only)
getStoredTLEByIdx(f, idx_list, string_only) ==
    IF ~f.exists THEN [out |-> NoneValue, opened |-> FALSE]
    ELSE LET idxs == IF idx_list.is_int THEN <<idx_list.v>> ELSE idx_list.v
         IN  [out |-> TlesFrom(ReadLines(f).val, idxs, string_only, <<>>), opened |-> TRUE]

(***************************************************************************)
(* Inputs of the file functions                                            *)
(***************************************************************************)
EpochA == <<"2", "1", "0", "0", "1", ".", "5">>
EpochB == <<"2", "0", "3", "6", "6", ".", "2", "5">>
EpochBad == <<"2", "x", "0", "0", "1", ".", "5">>
NameLine == [text |-> "0 ISS", fields |-> <<"0", "ISS">>]
Line1(name, epoch) == [text |-> name, fields |-> <<"1", "25544U", "98067A", epoch>>]
Line1s == {Line1("1 A", EpochA), Line1("1 B", EpochB), Line1("1 X", EpochBad)}
Line2 == [text |-> "2 ISS", fields |-> <<"2", "25544", "51.6", <<"2", "4", "7", ".", "4", "6">>>>]

\* the lines of a file of n lines: name line, line 1, line 2 in turn, the
\* r-th line 1 being c[r]
FileLines(n, c) ==
    [i \in 1..n |-> IF i % 3 = 1 THEN NameLine
                    ELSE IF i % 3 = 2 THEN c[(i + 1) \div 3] ELSE Line2]

\* the files of up to MaxLines lines, cut anywhere, and the missing file
FileInputs ==
    {NoFile} \cup
    {[exists |-> TRUE, lines |-> FileLines(n, c)] :
        n \in 0..MaxLines, c \in [1..((MaxLines + 1) \div 3) -> Line1s]}

IdxInputs == (-(MaxIdx + 1))..MaxIdx

(***************************************************************************)
(* The file functions as a state machine                                   *)
(***************************************************************************)
InitFile ==
    /\ fs \in FileInputs
    /\ call = NoCall
    /\ ret = NoRet
    /\ opened = FALSE
    /\ enc_from = <<>>

CallGetStoredEpochs ==
    /\ call.op = "none"
    /\ call' = [op |-> "getStoredEpochs"]
    /\ ret' = getStoredEpochs(fs).out
    /\ opened' = getStoredEpochs(fs).opened
    /\ UNCHANGED <<fs, enc_from>>

CallGetAllStoredEpochs ==
    /\ call.op = "none"
    /\ call' = [op |-> "getAllStoredEpochs"]
    /\ ret' = getAllStoredEpochs(fs).out
    /\ opened' = getAllStoredEpochs(fs).opened
    /\ UNCHANGED <<fs, enc_from>>

DoGetStoredTLEByIdx(idx_list, string_only) ==
    /\ call' = [op |-> "getStoredTLEByIdx", idx_list |-> idx_list,
                string_only |-> string_only]
    /\ ret' = getStoredTLEByIdx(fs, idx_list, string_only).out
    /\ opened' = getStoredTLEByIdx(fs, idx_list, string_only).opened
    /\ UNCHANGED <<fs, enc_from>>

CallGetStoredTLEByIdx ==
    /\ call.op = "none"
    /\ \E string_only \in BOOLEAN :
        \/ \E k \in IdxInputs : DoGetStoredTLEByIdx(IntArg(k), string_only)
        \/ \E l \in SeqsUpTo(IdxInputs, MaxIdxLen) : DoGetStoredTLEByIdx(ListArg(l), string_only)

\* the call returns and the file is closed
ReturnFile ==
    /\ call.op # "none"
    /\ call' = NoCall
    /\ ret' = NoRet
    /\ opened' = FALSE
    /\ UNCHANGED <<fs, enc_from>>

NextFile ==
    \/ CallGetStoredEpochs
    \/ CallGetAllStoredEpochs
    \/ CallGetStoredTLEByIdx
    \/ ReturnFile

SpecFile == InitFile /\ [][NextFile]_vars

(***************************************************************************)
(* Claims about the file functions (checked under SpecFile)                *)
(***************************************************************************)
FileOps == {"getStoredEpochs", "getAllStoredEpochs", "getStoredTLEByIdx"}

\* the list of record indices a call of getStoredTLEByIdx asks for
Requested == IF call.idx_list.is_int THEN <<call.idx_list.v>> ELSE call.idx_list.v

\* file line i (0-based) and the epoch its field 3 states
FileLine(i) == fs.lines[i + 1]
LineEpoch(i) == epoch2datetime(FileLine(i).fields[4])

\* C4: each of the three file functions returns None if and only if the file
\* does not exist: on a missing path None, without raising and without opening
\* the file, whatever the arguments; on an existing path a value that is not
\* None, or an exception.
C4_NoneIffMissing ==
    call.op \in FileOps
        => /\ ~fs.exists => (ret.kind = "None" /\ ~opened)
           /\ fs.exists => ret.kind \in {"value", "raise"}

\* C4's case: getStoredTLEByIdx of a missing file, asked for several records
C4_Witness ==
    /\ call.op = "getStoredTLEByIdx"
    /\ ~fs.exists
    /\ ~call.idx_list.is_int
    /\ Len(call.idx_list.v) = 2
    /\ ret.kind = "None"

\* C5: for an existing file and requested indices all inside the file,
\* getStoredTLEByIdx returns one entry per requested index, in request order,
\* the entry of index k built from lines 3k, 3k+1, 3k+2 only: their text
\* concatenated with string_only, else the mapping of 0, 1, 2 to their split
\* fields; an int k gives what the list [k] gives.
C5_RecordsByIndex ==
    (/\ call.op = "getStoredTLEByIdx"
     /\ fs.exists
     /\ \A n \in 1..Len(Requested) :
            Requested[n] >= 0 /\ 3 * Requested[n] + 2 <= Len(fs.lines) - 1)
        => /\ IsValue(ret)
           /\ Len(ret.val) = Len(Requested)
           /\ \A n \in 1..Len(Requested) :
                  LET k == Requested[n]
                  IN  IF call.string_only
                      THEN ret.val[n] = <<FileLine(3 * k).text, FileLine(3 * k + 1).text,
                                          FileLine(3 * k + 2).text>>
                      ELSE /\ DOMAIN ret.val[n] = 0..2
                           /\ \A j \in 0..2 :
                                  /\ ret.val[n][j].fields = FileLine(3 * k + j).fields
                                  /\ ret.val[n][j].line_str = <<FileLine(3 * k + j).text>>

\* C5's case: records 1 and 0 were requested in that order and differ
C5_Witness ==
    /\ call.op = "getStoredTLEByIdx"
    /\ fs.exists
    /\ ~call.idx_list.is_int
    /\ call.idx_list.v = <<1, 0>>
    /\ call.string_only
    /\ IsValue(ret)
    /\ Len(ret.val) = 2
    /\ ret.val[1] # ret.val[2]

\* C6 as stated: if any requested index k, negative ones included, has backing
\* lines 3k, 3k+1, 3k+2 that are not all line indices in 0..L-1,
\* getStoredTLEByIdx fails with an index error and returns no result.
C6_Original ==
    (/\ call.op = "getStoredTLEByIdx"
     /\ fs.exists
     /\ \E n \in 1..Len(Requested) : \E j \in 0..2 :
            3 * Requested[n] + j \notin 0..(Len(fs.lines) - 1))
        => (IsRaise(ret) /\ ret.exc = "IndexError")

\* C6 as amended: a negative line index counts from the end of the file, so
\* the call fails with an index error, and returns no result, if any requested
\* k has a backing line 3k, 3k+1 or 3k+2 outside -L..L-1.
C6_Amended ==
    (/\ call.op = "getStoredTLEByIdx"
     /\ fs.exists
     /\ \E n \in 1..Len(Requested) : \E j \in 0..2 :
            3 * Requested[n] + j \notin (-Len(fs.lines))..(Len(fs.lines) - 1))
        => (IsRaise(ret) /\ ret.exc = "IndexError")

\* C6's case: record 0 is in the file, record 2 is cut after its first line
C6_Witness ==
    /\ call.op = "getStoredTLEByIdx"
    /\ fs.exists
    /\ Len(fs.lines) = 7
    /\ ~call.idx_list.is_int
    /\ call.idx_list.v = <<0, 2>>
    /\ IsRaise(ret)
    /\ ret.exc = "IndexError"

\* C7: for an existing file of n >= 1 records stored back-to-back (the epoch
\* line of record k is line 3k+1), getStoredEpochs returns the pair (epoch of
\* record 0, epoch of record n-1) in file order, not sorted; both are the
\* epoch of record 0 when n = 1.
C7_EpochRange ==
    (/\ call.op = "getStoredEpochs"
     /\ fs.exists
     /\ Len(fs.lines) >= 3
     /\ Len(fs.lines) % 3 = 0
     /\ IsValue(LineEpoch(1))
     /\ IsValue(LineEpoch(Len(fs.lines) - 2)))
        => /\ IsValue(ret)
           /\ ret.val = <<LineEpoch(1).val, LineEpoch(3 * (Len(fs.lines) \div 3 - 1) + 1).val>>

\* C7's case: two records, the first of a later epoch than the second
C7_Witness ==
    /\ call.op = "getStoredEpochs"
    /\ fs.exists
    /\ Len(fs.lines) = 6
    /\ IsValue(ret)
    /\ DtBefore(ret.val[2], ret.val[1])

\* C8: for an existing file of L lines, getAllStoredEpochs returns one datetime
\* for each line index i in {1, 4, 7, ...} with i < L, in increasing order of
\* i, the j-th being the epoch of line 1 + 3j; n entries for n back-to-back
\* records; one unparseable epoch line makes the whole call fail.
C8_AllEpochs ==
    (call.op = "getAllStoredEpochs" /\ fs.exists)
        => LET L   == Len(fs.lines)
               idx == {i \in 0..(L - 1) : i % 3 = 1}
               n   == Cardinality(idx)
           IN  /\ (\A i \in idx : IsValue(LineEpoch(i)))
                      => /\ IsValue(ret)
                         /\ Len(ret.val) = n
                         /\ \A j \in 0..(n - 1) : ret.val[j + 1] = LineEpoch(1 + 3 * j).val
                         /\ L % 3 = 0 => Len(ret.val) = L \div 3
               /\ (\E i \in idx : IsRaise(LineEpoch(i))) => IsRaise(ret)

\* C8's case: a file cut after its second epoch line gave two different epochs
C8_Witness ==
    /\ call.op = "getAllStoredEpochs"
    /\ fs.exists
    /\ Len(fs.lines) = 5
    /\ IsValue(ret)
    /\ Len(ret.val) = 2
    /\ ret.val[1] # ret.val[2]

====
